---- MODULE Spec2Model ----
(***************************************************************************)
(* The kodim.cz web server: the JWT middleware, logout, the GitHub OAuth   *)
(* callback, the /prihlasit middleware, the catch-all page handler with    *)
(* its access check, and the ExerciseView component.                       *)
(***************************************************************************)
EXTENDS Integers, Sequences, FiniteSets, TLC

VARIABLES
    config,     \* config.defaultAccess as parsed from server-config.json5
    users,      \* the UserModel collection, in insertion order
    cookies,    \* per client: the value of its 'token' cookie
    sessions,   \* per client: session.returnUrl in the session store
    inflight,   \* per client: the GitHub callback suspended at an await
    last,       \* the request handled last and what the server answered
    view,       \* the props given to ExerciseView and what it rendered
    jwtReq      \* a request given to the JWT middleware and its outcome

vars == <<config, users, cookies, sessions, inflight, last, view, jwtReq>>

\* JavaScript's undefined and null, for values that are otherwise strings.
Undefined == "<undefined>"
Null == "<null>"

----------------------------------------------------------------------------
\* Bounds of the model.

\* The most user documents the collection holds.
MaxUsers == 2
\* The longest Authorization header, in chunks.
MaxHeaderLen == 3
\* The largest exercise number rendered.
MaxNum == 2

Clients == {"c1", "c2"}
Logins == {"alice", "bob"}

----------------------------------------------------------------------------
\* JSON web tokens (jsonwebtoken with the HS256 session secret).

\* jwt.sign({ login }, config.sessionSecret)
JwtSign(login) == "jwt." \o login

\* The tokens the secret signs, and what verifying one yields.
ValidTokens == {JwtSign(l) : l \in Logins}
JwtVerify(token) == CHOOSE l \in Logins : JwtSign(l) = token

----------------------------------------------------------------------------
\* The Authorization header is a string, written here as a sequence of
\* chunks: a chunk is a single space or a run of non-space characters.

SP == " "

\* String.prototype.split(' '): the words between single spaces; two
\* spaces in a row, a leading or a trailing space give an empty word.
RECURSIVE SplitFrom(_, _, _)
SplitFrom(s, i, word) ==
    IF i > Len(s) THEN <<word>>
    ELSE IF s[i] = SP THEN <<word>> \o SplitFrom(s, i + 1, "")
    ELSE SplitFrom(s, i + 1, word \o s[i])

Split(s) == SplitFrom(s, 1, "")

\* words[i] of a JavaScript array (0-based), undefined past its end.
At(words, i) == IF i + 1 <= Len(words) THEN words[i + 1] ELSE Undefined

\* A request without the header carries NoHeader; '' is <<>>.
NoHeader == <<Undefined>>

\* req.headers.authorization && ...: absent and '' are falsy.
Truthy(header) == header # NoHeader /\ header # <<>>

\* getToken: the second word of a Bearer header, else the 'token' cookie.
getTokenCookieFirst(header, cookieToken) ==
    IF cookieToken # Undefined THEN cookieToken
    ELSE IF Truthy(header) /\ At(Split(header), 0) = "Bearer"
         THEN At(Split(header), 1)
         ELSE Undefined

getToken(header, cookieToken) ==
    IF Truthy(header) /\ At(Split(header), 0) = "Bearer"
    THEN At(Split(header), 1)
    ELSE cookieToken

\* express-jwt with credentialsRequired: false. Without a token the
\* request goes on with req.auth undefined; a token that verifies sets
\* req.auth to its payload; any other token is answered 401.
expressjwt(header, cookieToken) ==
    LET token == getToken(header, cookieToken) IN
    IF token = Undefined \/ token = ""
    THEN [token |-> token, status |-> "next", auth |-> Undefined]
    ELSE IF token \in ValidTokens
    THEN [token |-> token, status |-> "next", auth |-> JwtVerify(token)]
    ELSE [token |-> token, status |-> "401", auth |-> Undefined]

----------------------------------------------------------------------------
\* The user store (UserModel) and accounts.

NoUser == [login |-> "", name |-> "", groups |-> <<>>]

\* UserModel.findOne({ login }): the first document with the login, or null.
RECURSIVE FindFrom(_, _, _)
FindFrom(docs, login, i) ==
    IF i > Len(docs) THEN 0
    ELSE IF docs[i].login = login THEN i
    ELSE FindFrom(docs, login, i + 1)

findOne(docs, login) == FindFrom(docs, login, 1)

\* new UserModel({...}).save(): one document more in the collection.
save(docs, doc) == Append(docs, doc)

\* The user GitHub's API reports: name is null for a user without one.
GithubUsers ==
    { [login |-> "alice", name |-> Null],
      [login |-> "bob", name |-> "Bob B."] }

\* The document the callback creates for a GitHub user unknown so far.
NewUser(githubUser) ==
    [login |-> githubUser.login,
     name |-> IF githubUser.name = Null THEN githubUser.login
              ELSE githubUser.name,
     groups |-> <<>>]

\* The content claims a group grants its members.
GroupClaims(group) == IF group = "czechitas" THEN <<"/kurzy/daweb">> ELSE <<>>

RECURSIVE ClaimsOfGroups(_)
ClaimsOfGroups(groups) ==
    IF groups = <<>> THEN <<>>
    ELSE GroupClaims(Head(groups)) \o ClaimsOfGroups(Tail(groups))

NullAccount == [tag |-> "null", user |-> NoUser, claims |-> [content |-> <<>>]]

\* getAccount(login): the account of the stored user, or null.
getAccount(docs, login) ==
    LET i == findOne(docs, login) IN
    IF i = 0 THEN NullAccount
    ELSE [tag |-> "object",
          user |-> docs[i],
          claims |-> [content |-> ClaimsOfGroups(docs[i].groups)]]

----------------------------------------------------------------------------
\* Access checks (kodim-cms access-check.js objects, by their constructor
\* arguments) and the catch-all page handler.

NoAccessUser == [login |-> "", access |-> ""]

AccessGrantAll == [kind |-> "grantAll", user |-> NoAccessUser, claims |-> <<>>]

AccessClaimCheck(user, claims) ==
    [kind |-> "claims", user |-> user, claims |-> claims]

NoCheck == [kind |-> "", user |-> NoAccessUser, claims |-> <<>>]

\* config.defaultAccess, a JSON5 value: absent, a string, or an object
\* whose claims may be absent and whose claims.content may be absent.
DefaultAccess(type, str, hasClaims, hasContent, content) ==
    [type |-> type, str |-> str, hasClaims |-> hasClaims,
     hasContent |-> hasContent, content |-> content]

DefaultAccessValues ==
    { DefaultAccess("undefined", "", FALSE, FALSE, <<>>),
      DefaultAccess("string", "granted", FALSE, FALSE, <<>>),
      DefaultAccess("string", "denied", FALSE, FALSE, <<>>),
      DefaultAccess("object", "", FALSE, FALSE, <<>>),
      DefaultAccess("object", "", TRUE, FALSE, <<>>),
      DefaultAccess("object", "", TRUE, TRUE, <<>>),
      DefaultAccess("object", "", TRUE, TRUE, <<"/kurzy/uvod">>) }

\* const accessUser: User = { login: ..., access: ... }
accessUser(account) ==
    [login |-> IF account.tag = "object" THEN account.user.login ELSE "",
     access |-> IF account.tag = "undefined" THEN "public" ELSE "registered"]

\* let defaultAccessCheck = ...: threw is TRUE where evaluating the
\* configuration raises a TypeError (claims of undefined, or spreading
\* a content that is undefined).
defaultAccessCheck(defaultAccess, user) ==
    IF defaultAccess.type = "string" /\ defaultAccess.str = "granted"
    THEN [threw |-> FALSE, check |-> AccessGrantAll]
    ELSE IF defaultAccess.type = "undefined"
    THEN [threw |-> TRUE, check |-> NoCheck]
    ELSE IF defaultAccess.type = "object" /\ defaultAccess.hasClaims
    THEN IF defaultAccess.hasContent
         THEN [threw |-> FALSE,
               check |-> AccessClaimCheck(user, defaultAccess.content)]
         ELSE [threw |-> TRUE, check |-> NoCheck]
    ELSE [threw |-> FALSE, check |-> AccessClaimCheck(user, <<"/kurzy">>)]

\* accessCheck={account === null ? defaultAccessCheck : ...}
accessCheckDefaultAlways(account, default, user) == default

accessCheck(account, default, user) ==
    IF account.tag = "null" THEN default
    ELSE AccessClaimCheck(user, account.claims.content)

\* server.get('*'): what the handler computes for a request whose
\* req.auth is auth (a login, or Undefined).
Page(docs, defaultAccess, auth) ==
    LET login == auth
        account == IF login # Undefined /\ login # ""
                   THEN getAccount(docs, login) ELSE NullAccount
        user == accessUser(account)
        default == defaultAccessCheck(defaultAccess, user)
    IN  [status |-> IF default.threw THEN "error" ELSE "200",
         account |-> account,
         accessUser |-> user,
         defaultCheck |-> default.check,
         accessCheck |-> IF default.threw THEN NoCheck
                         ELSE accessCheck(account, default.check, user)]

----------------------------------------------------------------------------
\* Requests and responses.

\* req.query.returnUrl: absent, a string, or an array (a repeated key).
Query(type, str) == [type |-> type, str |-> str]
NoQuery == Query("undefined", "")
QueryValues == {NoQuery, Query("string", "/kurzy/daweb"), Query("array", "")}

\* Authorization headers of requests: none, a token signed for bob, and
\* a token the secret did not sign.
BearerBob == <<"Bearer", SP, JwtSign("bob")>>
BearerGarbage == <<"Bearer", SP, "garbage">>
RequestHeaders == {NoHeader, BearerBob, BearerGarbage}

NoGithubUser == [login |-> "", name |-> Null]

\* No callback of the client is suspended.
Idle ==
    [pc |-> "idle", githubUser |-> NoGithubUser, dbUserNull |-> FALSE,
     returnUrl |-> Undefined]

\* The answer to the last request: the status ("200" a page, "302" a
\* redirect, "401" from the JWT middleware, "error" a handler that threw,
\* "pending" a handler suspended), and what the handler computed.
NoLast ==
    [route |-> "", status |-> "", auth |-> Undefined,
     redirect |-> Undefined, nextCalled |-> FALSE, setCookie |-> Undefined,
     account |-> NullAccount, accessUser |-> NoAccessUser,
     defaultCheck |-> NoCheck, accessCheck |-> NoCheck]

\* What every response records of its request.
Response(route, jwt) ==
    [NoLast EXCEPT !.route = route, !.auth = jwt.auth, !.status = jwt.status]

\* The page rendered by server.get('*') added to a response.
WithPage(resp, page) ==
    [resp EXCEPT !.status = page.status, !.account = page.account,
                 !.accessUser = page.accessUser,
                 !.defaultCheck = page.defaultCheck,
                 !.accessCheck = page.accessCheck]

----------------------------------------------------------------------------
\* ExerciseView.

demandText ==
    <<Null, "pohodicka", "to das", "zapni hlavu", "zavarovacka",
      "smrt v primem prenosu">>

\* The solution paths the view is given: 'forbidden' for a locked
\* solution, else the link to it.
Paths == {"forbidden", "Forbidden", "/kurzy/daweb/reseni", ""}

ViewProps ==
    [num : 1..MaxNum, demand : 0..(Len(demandText) - 1),
     hasSolution : BOOLEAN, path : Paths]

NoControls == [tag |-> "", locked |-> FALSE, href |-> Undefined]

\* {path === 'forbidden' ? <span ...locked> : <a href={path}>}
solutionControlAlwaysLink(path) ==
    [tag |-> "a", locked |-> FALSE, href |-> path]

solutionControl(path) ==
    IF path = "forbidden"
    THEN [tag |-> "span", locked |-> TRUE, href |-> Undefined]
    ELSE [tag |-> "a", locked |-> FALSE, href |-> path]

\* What ExerciseView renders of its props.
ExerciseView(props) ==
    [num |-> props.num,
     demandClass |-> "demand demand--" \o ToString(props.demand),
     demandText |-> At(demandText, props.demand),
     hasControls |-> props.hasSolution,
     control |-> IF props.hasSolution THEN solutionControl(props.path)
                 ELSE NoControls]

NoProps == [num |-> 0, demand |-> 0, hasSolution |-> FALSE, path |-> ""]

NoElement ==
    [num |-> 0, demandClass |-> "", demandText |-> Null,
     hasControls |-> FALSE, control |-> NoControls]

ViewIdle == [props |-> NoProps, rendered |-> FALSE, element |-> NoElement]

JwtIdle ==
    [header |-> NoHeader, cookie |-> Undefined, done |-> FALSE,
     token |-> Undefined, status |-> "", auth |-> Undefined]

----------------------------------------------------------------------------
\* The server.

\* A member enrolled before the server started.
Member == [login |-> "alice", name |-> "Alice A.", groups |-> <<"czechitas">>]

Init ==
    /\ config \in DefaultAccessValues
    /\ users \in {<<>>, <<Member>>}
    /\ cookies = [c \in Clients |-> Undefined]
    /\ sessions = [c \in Clients |-> Undefined]
    /\ inflight = [c \in Clients |-> Idle]
    /\ last = NoLast
    /\ view = ViewIdle
    /\ jwtReq = JwtIdle

\* res.clearCookie('token')
clearCookieKeeps(cookieToken) == cookieToken

clearCookie(cookieToken) == Undefined

\* server.get('/odhlasit')
Odhlasit(c, header) ==
    LET jwt == expressjwt(header, cookies[c])
        resp == Response("odhlasit", jwt)
    IN  /\ cookies' = IF jwt.status = "401" THEN cookies
                      ELSE [cookies EXCEPT ![c] = clearCookie(@)]
        /\ last' = IF jwt.status = "401" THEN resp
                   ELSE [resp EXCEPT !.status = "302", !.redirect = "/",
                                     !.setCookie = "cleared"]
        /\ UNCHANGED <<config, users, sessions, inflight, view, jwtReq>>

\* The documents that callbacks suspended before their save will add.
PendingSaves ==
    Cardinality({c \in Clients : inflight[c].pc = "awaiting"
                                 /\ inflight[c].dbUserNull})

\* server.get('/prihlasit/github'), up to the await of findOne: the
\* session is loaded with the request, GitHub names the user, and the
\* store looks the login up.
PrihlasitGithubFind(c, header, githubUser) ==
    LET jwt == expressjwt(header, cookies[c])
        resp == Response("github", jwt)
        dbUser == findOne(users, githubUser.login)
    IN  /\ inflight[c].pc = "idle"
        /\ dbUser = 0 => Len(users) + PendingSaves < MaxUsers
        /\ inflight' = IF jwt.status = "401" THEN inflight
                       ELSE [inflight EXCEPT ![c] =
                               [pc |-> "awaiting",
                                githubUser |-> githubUser,
                                dbUserNull |-> (dbUser = 0),
                                returnUrl |-> sessions[c]]]
        /\ last' = IF jwt.status = "401" THEN resp
                   ELSE [resp EXCEPT !.status = "pending"]
        /\ UNCHANGED <<config, users, cookies, sessions, view, jwtReq>>

\* if (dbUser === null) { dbUser = new UserModel(...); await dbUser.save(); }
dbUserSaveAlways(docs, githubUser, dbUserNull) ==
    save(docs, NewUser(githubUser))

dbUserSave(docs, githubUser, dbUserNull) ==
    IF dbUserNull THEN save(docs, NewUser(githubUser)) ELSE docs

\* res.redirect(req.session.returnUrl ?? '/')
callbackRedirectHome(returnUrl) == "/"

callbackRedirect(returnUrl) ==
    IF returnUrl = Undefined THEN "/" ELSE returnUrl

\* server.get('/prihlasit/github'), from the result of findOne on: the
\* user is created when none was found, the token cookie is set and the
\* response redirects to the session's returnUrl.
PrihlasitGithubRespond(c) ==
    LET call == inflight[c]
        login == call.githubUser.login
        token == JwtSign(login)
    IN  /\ call.pc = "awaiting"
        /\ users' = dbUserSave(users, call.githubUser, call.dbUserNull)
        /\ cookies' = [cookies EXCEPT ![c] = token]
        /\ inflight' = [inflight EXCEPT ![c] = Idle]
        /\ last' = [NoLast EXCEPT !.route = "github",
                                  !.status = "302",
                                  !.setCookie = token,
                                  !.redirect = callbackRedirect(call.returnUrl)]
        /\ UNCHANGED <<config, sessions, view, jwtReq>>

\* const returnUrl = typeof req.query.returnUrl === 'string' ? ... : '/'
returnUrlOf(query) == IF query.type = "string" THEN query.str ELSE "/"

\* req.session.returnUrl = returnUrl, reached only without req.auth.
sessionReturnUrlAlways(auth, returnUrl, stored) == returnUrl

sessionReturnUrl(auth, returnUrl, stored) ==
    IF auth # Undefined THEN stored ELSE returnUrl

\* server.use('/prihlasit'), and on next() the page of server.get('*')
Prihlasit(c, header, query) ==
    LET jwt == expressjwt(header, cookies[c])
        resp == Response("prihlasit", jwt)
        returnUrl == returnUrlOf(query)
    IN  /\ sessions' = IF jwt.status = "401" THEN sessions
                       ELSE [sessions EXCEPT ![c] =
                               sessionReturnUrl(jwt.auth, returnUrl, @)]
        /\ last' = IF jwt.status = "401" THEN resp
                   ELSE IF jwt.auth # Undefined
                   THEN [resp EXCEPT !.status = "302", !.redirect = returnUrl]
                   ELSE WithPage([resp EXCEPT !.nextCalled = TRUE],
                                 Page(users, config, jwt.auth))
        /\ UNCHANGED <<config, users, cookies, inflight, view, jwtReq>>

\* server.get('*')
GetPage(c, header) ==
    LET jwt == expressjwt(header, cookies[c])
        resp == Response("page", jwt)
    IN  /\ last' = IF jwt.status = "401" THEN resp
                   ELSE WithPage(resp, Page(users, config, jwt.auth))
        /\ UNCHANGED <<config, users, cookies, sessions, inflight, view,
                       jwtReq>>

\* The whole server.
Next ==
    \/ \E c \in Clients, h \in RequestHeaders : Odhlasit(c, h)
    \/ \E c \in Clients, h \in RequestHeaders, g \in GithubUsers :
          PrihlasitGithubFind(c, h, g)
    \/ \E c \in Clients : PrihlasitGithubRespond(c)
    \/ \E c \in Clients, h \in RequestHeaders, q \in QueryValues :
          Prihlasit(c, h, q)
    \/ \E c \in Clients, h \in RequestHeaders : GetPage(c, h)

Spec == Init /\ [][Next]_vars

\* The login flow: logout, the GitHub callback and the /prihlasit pages,
\* under one configuration and without Bearer tokens of other users.
LoginHeaders == {NoHeader, BearerGarbage}

InitLogin ==
    /\ Init
    /\ config = DefaultAccess("object", "", TRUE, TRUE, <<"/kurzy/uvod">>)

NextLogin ==
    \/ \E c \in Clients, h \in LoginHeaders : Odhlasit(c, h)
    \/ \E c \in Clients, h \in LoginHeaders, g \in GithubUsers :
          PrihlasitGithubFind(c, h, g)
    \/ \E c \in Clients : PrihlasitGithubRespond(c)
    \/ \E c \in Clients, h \in LoginHeaders, q \in QueryValues :
          Prihlasit(c, h, q)

SpecLogin == InitLogin /\ [][NextLogin]_vars

\* Page access: pages requested between logins and logouts, under every
\* configuration.
NextAccess ==
    \/ \E c \in Clients, h \in RequestHeaders : Odhlasit(c, h)
    \/ \E c \in Clients, h \in RequestHeaders, g \in GithubUsers :
          PrihlasitGithubFind(c, h, g)
    \/ \E c \in Clients : PrihlasitGithubRespond(c)
    \/ \E c \in Clients, h \in RequestHeaders : GetPage(c, h)

SpecAccess == Init /\ [][NextAccess]_vars

----------------------------------------------------------------------------
\* The JWT middleware alone, on every short header and every cookie.

Chunks == {"Bearer", "Basic", SP, JwtSign("alice"), "garbage"}

RECURSIVE SeqsUpTo(_, _)
SeqsUpTo(S, n) ==
    IF n = 0 THEN {<<>>}
    ELSE LET shorter == SeqsUpTo(S, n - 1)
         IN  shorter \cup {Append(s, x) : s \in shorter, x \in S}

Headers == {NoHeader} \cup SeqsUpTo(Chunks, MaxHeaderLen)

CookieTokens == {Undefined, JwtSign("bob"), "stale"}

InitJwt ==
    /\ config = DefaultAccess("string", "granted", FALSE, FALSE, <<>>)
    /\ users = <<>>
    /\ cookies = [c \in Clients |-> Undefined]
    /\ sessions = [c \in Clients |-> Undefined]
    /\ inflight = [c \in Clients |-> Idle]
    /\ last = NoLast
    /\ view = ViewIdle
    /\ \E h \in Headers, t \in CookieTokens :
          jwtReq = [JwtIdle EXCEPT !.header = h, !.cookie = t]

\* server.use(expressjwt({...}))
JwtMiddleware ==
    LET jwt == expressjwt(jwtReq.header, jwtReq.cookie)
    IN  /\ ~jwtReq.done
        /\ jwtReq' = [jwtReq EXCEPT !.done = TRUE, !.token = jwt.token,
                                    !.status = jwt.status, !.auth = jwt.auth]
        /\ UNCHANGED <<config, users, cookies, sessions, inflight, last, view>>

SpecJwt == InitJwt /\ [][JwtMiddleware]_vars

----------------------------------------------------------------------------
\* ExerciseView alone, on every combination of its props.

InitView ==
    /\ config = DefaultAccess("string", "granted", FALSE, FALSE, <<>>)
    /\ users = <<>>
    /\ cookies = [c \in Clients |-> Undefined]
    /\ sessions = [c \in Clients |-> Undefined]
    /\ inflight = [c \in Clients |-> Idle]
    /\ last = NoLast
    /\ jwtReq = JwtIdle
    /\ \E p \in ViewProps : view = [ViewIdle EXCEPT !.props = p]

Render ==
    /\ ~view.rendered
    /\ view' = [view EXCEPT !.rendered = TRUE,
                            !.element = ExerciseView(view.props)]
    /\ UNCHANGED <<config, users, cookies, sessions, inflight, last, jwtReq>>

SpecView == InitView /\ [][Render]_vars

----------------------------------------------------------------------------
\* Properties of the catch-all page handler (checked under SpecAccess).

\* A page request that passed the JWT middleware.
PageHandled == last.route = "page" /\ last.status # "401"

\* A page request whose app was rendered.
PageRendered == last.route = "page" /\ last.status = "200"

\* C1: the access check handed to the rendered app is chosen by the
\* resolved account alone: without an account (no login in req.auth, or
\* no stored user for the login) it is the default access check; with an
\* account it is a claim check over the account's own content claims,
\* whatever the configured default access is.
C1_AccessCheckByAccount ==
    PageRendered =>
        /\ last.account.tag \in {"null", "object"}
        /\ last.auth = Undefined => last.account.tag = "null"
        /\ last.account.tag = "null" =>
              last.accessCheck = last.defaultCheck
        /\ last.account.tag = "object" =>
              /\ last.account.user.login = last.auth
              /\ last.accessCheck.kind = "claims"
              /\ last.accessCheck.claims = last.account.claims.content

\* A member's page rendered under defaultAccess 'granted': the check is
\* the member's claims, not AccessGrantAll.
C1_Witness ==
    /\ PageRendered
    /\ config.str = "granted"
    /\ last.account.tag = "object"
    /\ last.account.claims.content = <<"/kurzy/daweb">>
    /\ last.accessCheck.kind = "claims"

\* C3: the default access check follows the configuration in this
\* priority, one of the three for every configuration value: 'granted'
\* gives AccessGrantAll; else defined claims give a claim check over
\* claims.content; else a claim check over the single claim '/kurzy'.
C3_DefaultAccessPriority ==
    PageHandled =>
        IF config.type = "string" /\ config.str = "granted"
        THEN last.defaultCheck = AccessGrantAll
        ELSE IF config.type = "object" /\ config.hasClaims
        THEN /\ last.defaultCheck.kind = "claims"
             /\ config.hasContent =>
                   last.defaultCheck.claims = config.content
        ELSE /\ last.defaultCheck.kind = "claims"
             /\ last.defaultCheck.claims = <<"/kurzy">>

\* C9: a request without a resolved account is evaluated as the user
\* { login: '', access: 'public' }, and access 'registered' is given
\* only to a request with a resolved account.
C9_AccessLevel ==
    PageRendered =>
        /\ last.account.tag = "null" =>
              last.accessUser = [login |-> "", access |-> "public"]
        /\ last.accessUser.access = "registered" =>
              last.account.tag = "object"

\* C8: /odhlasit clears the token cookie and redirects to '/'; a page
\* request of a client that holds no token cookie and sends no Bearer
\* header is served unauthenticated (no req.auth, no account, the default
\* access check); and a client without the cookie gets one only from the
\* GitHub callback.
C8_LogoutEndsCookieAuth ==
    [][\A c \in Clients :
         /\ \A h \in RequestHeaders :
               (/\ last'.route = "odhlasit"
                /\ last'.status # "401"
                /\ Odhlasit(c, h)) =>
                   /\ cookies'[c] = Undefined
                   /\ last'.status = "302"
                   /\ last'.redirect = "/"
         /\ \A h \in RequestHeaders :
               (/\ last'.route = "page"
                /\ cookies[c] = Undefined
                /\ (h = NoHeader \/ Split(h)[1] # "Bearer")
                /\ GetPage(c, h)) =>
                   /\ last'.status # "401"
                   /\ last'.auth = Undefined
                   /\ last'.account.tag = "null"
                   /\ last'.accessCheck = last'.defaultCheck
         /\ (cookies[c] = Undefined /\ cookies'[c] # Undefined) =>
               PrihlasitGithubRespond(c)
      ]_vars

\* A logout of a client logged in as alice by its cookie, after which no
\* client holds a cookie.
C8_Witness ==
    /\ last.route = "odhlasit"
    /\ last.status = "302"
    /\ last.auth = "alice"
    /\ \A c \in Clients : cookies[c] = Undefined

----------------------------------------------------------------------------
\* Properties of the login flow (checked under SpecLogin).

\* C4: the GitHub callback is find-or-create by login: where its lookup
\* found a user it leaves the store unchanged; where it found none it
\* adds exactly one user with the login, the name GitHub gave or else the
\* login, and no groups. Either way the response sets the 'token' cookie
\* to a JWT of that login.
C4_FindOrCreate ==
    [][\A c \in Clients :
         /\ \A h \in LoginHeaders, g \in GithubUsers :
               (/\ last'.status = "pending"
                /\ PrihlasitGithubFind(c, h, g)) =>
                   /\ users' = users
                   /\ inflight'[c].githubUser = g
                   /\ inflight'[c].dbUserNull =
                         (\A i \in 1..Len(users) : users[i].login # g.login)
         /\ (last'.route = "github" /\ PrihlasitGithubRespond(c)) =>
               LET g == inflight[c].githubUser IN
               /\ ~inflight[c].dbUserNull => users' = users
               /\ inflight[c].dbUserNull =>
                     /\ Len(users') = Len(users) + 1
                     /\ SubSeq(users', 1, Len(users)) = users
                     /\ users'[Len(users')] =
                           [login |-> g.login,
                            name |-> IF g.name = Null THEN g.login
                                     ELSE g.name,
                            groups |-> <<>>]
               /\ last'.setCookie \in ValidTokens
               /\ JwtVerify(last'.setCookie) = g.login
               /\ cookies'[c] = last'.setCookie
      ]_vars

\* alice, who has no name at GitHub, was created under her login and a
\* client holds her token.
C4_Witness ==
    /\ last.route = "github"
    /\ last.status = "302"
    /\ \E i \in 1..Len(users) :
          users[i] = [login |-> "alice", name |-> "alice", groups |-> <<>>]
    /\ \E c \in Clients : cookies[c] = JwtSign("alice")

\* C5: an unauthenticated /prihlasit visit stores its string returnUrl
\* query, or '/' without one, in the session, and nothing else changes
\* the stored value; the callback redirects to the value its session
\* held when its request arrived, or to '/' when it held none.
C5_ReturnUrlRoundTrip ==
    [][\A c \in Clients :
         /\ \A h \in LoginHeaders, q \in QueryValues :
               (/\ last'.route = "prihlasit"
                /\ last'.status # "401"
                /\ last'.auth = Undefined
                /\ Prihlasit(c, h, q)) =>
                   sessions'[c] = IF q.type = "string" THEN q.str ELSE "/"
         /\ sessions'[c] # sessions[c] =>
               \E h \in LoginHeaders, q \in QueryValues :
                   Prihlasit(c, h, q) /\ last'.auth = Undefined
         /\ \A h \in LoginHeaders, g \in GithubUsers :
               (/\ last'.status = "pending"
                /\ PrihlasitGithubFind(c, h, g)) =>
                   inflight'[c].returnUrl = sessions[c]
         /\ (last'.route = "github" /\ PrihlasitGithubRespond(c)) =>
               /\ last'.status = "302"
               /\ last'.redirect = IF inflight[c].returnUrl = Undefined
                                   THEN "/" ELSE inflight[c].returnUrl
      ]_vars

\* A callback redirected to the returnUrl of an earlier visit.
C5_Witness ==
    /\ last.route = "github"
    /\ last.status = "302"
    /\ last.redirect = "/kurzy/daweb"

\* C6: the /prihlasit middleware answers an authenticated request with a
\* redirect to its string returnUrl query, or to '/' without one, calls
\* no next() and leaves the session untouched; an unauthenticated request
\* writes session.returnUrl and is passed on.
C6_PrihlasitShortCircuit ==
    [][\A c \in Clients, h \in LoginHeaders, q \in QueryValues :
         (/\ last'.route = "prihlasit"
          /\ last'.status # "401"
          /\ Prihlasit(c, h, q)) =>
             IF last'.auth # Undefined
             THEN /\ last'.status = "302"
                  /\ last'.redirect = IF q.type = "string" THEN q.str
                                      ELSE "/"
                  /\ ~last'.nextCalled
                  /\ sessions' = sessions
             ELSE /\ last'.nextCalled
                  /\ last'.redirect = Undefined
                  /\ sessions'[c] # Undefined
                  /\ \A d \in Clients \ {c} : sessions'[d] = sessions[d]
      ]_vars

\* A logged-in client was redirected from /prihlasit while its session
\* still held no returnUrl.
C6_Witness ==
    /\ last.route = "prihlasit"
    /\ last.status = "302"
    /\ last.auth # Undefined
    /\ last.redirect = "/kurzy/daweb"
    /\ \A c \in Clients : sessions[c] = Undefined

\* C10: the store never holds two users with the same login.
C10_OneUserPerLogin ==
    \A i, j \in 1..Len(users) :
        i # j => users[i].login # users[j].login

----------------------------------------------------------------------------
\* Property of the JWT middleware (checked under SpecJwt).

\* C7: a header whose first word is 'Bearer' gives its second word as the
\* token and the cookie is ignored; any other request gives the 'token'
\* cookie; and a request with neither goes on unauthenticated instead of
\* being rejected.
C7_TokenSource ==
    jwtReq.done =>
        LET words == Split(jwtReq.header)
            bearer == jwtReq.header # NoHeader /\ words[1] = "Bearer"
        IN  /\ bearer => jwtReq.token = IF Len(words) >= 2 THEN words[2]
                                        ELSE Undefined
            /\ ~bearer => jwtReq.token = jwtReq.cookie
            /\ (~bearer /\ jwtReq.cookie = Undefined) =>
                  (jwtReq.status = "next" /\ jwtReq.auth = Undefined)

\* A Bearer token of alice won over the cookie token of bob.
C7_Witness ==
    /\ jwtReq.done
    /\ jwtReq.header = <<"Bearer", SP, JwtSign("alice")>>
    /\ jwtReq.cookie = JwtSign("bob")
    /\ jwtReq.auth = "alice"

----------------------------------------------------------------------------
\* Property of ExerciseView (checked under SpecView).

\* C2: the solution control is rendered exactly when hasSolution holds;
\* it is a locked element without href exactly when path is 'forbidden',
\* and otherwise an anchor whose href is path; no anchor leads to a
\* locked solution.
C2_SolutionControl ==
    view.rendered =>
        LET props == view.props
            element == view.element
        IN  /\ element.hasControls <=> props.hasSolution
            /\ ~element.hasControls => element.control = NoControls
            /\ element.hasControls =>
                  IF props.path = "forbidden"
                  THEN /\ element.control.tag = "span"
                       /\ element.control.locked
                       /\ element.control.href = Undefined
                  ELSE /\ element.control.tag = "a"
                       /\ ~element.control.locked
                       /\ element.control.href = props.path

\* A locked solution was rendered as a span without href.
C2_Witness ==
    /\ view.rendered
    /\ view.props.hasSolution
    /\ view.props.path = "forbidden"
    /\ view.element.control.tag = "span"
    /\ view.element.control.href = Undefined

====
